---- MODULE Spec2Model ----
(***************************************************************************)
(* Model of the client-side compression pipeline of the Tinify image       *)
(* compressor (app.jsx): the in-memory job list `files`, the IndexedDB     *)
(* object store, and the asynchronous handlers processNewFiles,            *)
(* removeFile, clearAll, compressFile / startCompression and the initial   *)
(* load effect.                                                            *)
(*                                                                         *)
(* Scheduling is the browser's: one thread, handlers run to their next     *)
(* await.  Every store helper first awaits openDB(); the open requests of  *)
(* one database are served in the order they were made, so the pending     *)
(* store calls form the FIFO queue `dbq`.  store.put / delete / clear      *)
(* return an IDBRequest, not a promise, so the caller resumes as soon as   *)
(* the request is placed; transactions on one object store run in the      *)
(* order they were created, so the write takes effect, for every later     *)
(* reader, at the moment it is placed.  getAll alone waits for its         *)
(* request: it reads the store as of the moment it is placed and delivers  *)
(* the result in a later task.                                             *)
(***************************************************************************)
EXTENDS Integers, Sequences, FiniteSets, TLC

\* ------------------------------------------------------------------ bounds
MaxIds == 2          \* number of ids crypto.randomUUID() hands out
MaxBatch == 2        \* longest file list given to one processNewFiles call
MaxPending == 1      \* store calls queued when the user triggers another one
MaxFail == 1         \* store calls that fail
MaxReloads == 1      \* page reloads
MaxIngests == 1      \* processNewFiles calls running at the same time
MaxBytes == 1        \* longest body of a request to the relay

\* ------------------------------------------------------------------ values
Null == "null"       \* JS null (url, error)
Undefined == 0 - 1   \* JS undefined where a number is expected (output.size)

Ids == 1 .. MaxIds

\* Candidate files: name is <<stem, extension>>, type is <<major, minor>>.
FileA == [name |-> <<"a", "png">>, size |-> 1, type |-> <<"image", "png">>]
FileB == [name |-> <<"b", "jpg">>, size |-> 2, type |-> <<"image", "jpeg">>]
FileT == [name |-> <<"c", "txt">>, size |-> 1, type |-> <<"text", "plain">>]
Candidates == {FileA, FileB, FileT}

Batches == UNION {[1 .. n -> Candidates] : n \in 1 .. MaxBatch}

\* Answers of the compression endpoint to one fetch.
\*   kind "net"   : fetch rejects (transport failure)
\*   kind "http"  : a response; ok = 2xx; body is "none" (not parseable) or
\*                  "json"; message / statusText may be empty; hasOutput,
\*                  outUrl (Null when missing) and outSize (Undefined when
\*                  missing) describe the parsed body
Resp(kind, ok, body, message, statusText, hasOutput, outUrl, outSize) ==
    [kind |-> kind, ok |-> ok, body |-> body, message |-> message,
     statusText |-> statusText, hasOutput |-> hasOutput, outUrl |-> outUrl,
     outSize |-> outSize]

Responses ==
    { Resp("net", FALSE, "none", "", "", FALSE, Null, Undefined),
      Resp("http", FALSE, "json", "Unsupported media type", "415", FALSE, Null, Undefined),
      Resp("http", FALSE, "none", "", "Server Error", FALSE, Null, Undefined),
      Resp("http", FALSE, "json", "", "Server Error", FALSE, Null, Undefined),
      Resp("http", FALSE, "none", "", "", FALSE, Null, Undefined),
      Resp("http", TRUE, "json", "", "OK", TRUE, "https://x/y", 1),
      Resp("http", TRUE, "json", "", "OK", TRUE, "https://x/y", Undefined),
      Resp("http", TRUE, "json", "", "OK", TRUE, Null, 1),
      Resp("http", TRUE, "json", "", "OK", FALSE, Null, Undefined),
      Resp("http", TRUE, "none", "", "OK", FALSE, Null, Undefined) }

\* the answers the interleaving model draws from: one that succeeds and one
\* that fails
CoreResponses ==
    { Resp("http", TRUE, "json", "", "OK", TRUE, "https://x/y", 1),
      Resp("http", FALSE, "json", "Unsupported media type", "415", FALSE, Null, Undefined) }

DBOutcomes == {"ok", "openfail", "reqfail"}
WorkingStore == {"ok"}

NoResp == Resp("none", FALSE, "none", "", "", FALSE, Null, Undefined)

\* The credential: '' when none is configured.
NoKey == ""
KeyK == "k1"

\* btoa(s): the base64 text of s, a value of its own
Btoa(s) == <<"base64", s>>

\* compressFile's fetch: the url and the headers object
RelayUrl == "http://localhost:3000/api/compress"
DirectUrl == "https://api.tinify.com/shrink"
NoAuth == <<>>
Request(key) ==
    LET useProxy == key = NoKey IN
    [url |-> IF useProxy THEN RelayUrl ELSE DirectUrl,
     auth |-> IF useProxy THEN NoAuth ELSE <<"Basic ", Btoa(<<"api:", key>>)>>]
NoRequest == [url |-> Null, auth |-> NoAuth]

\* What a store helper gives back to its caller when its call fails.
\*   "openfail": openDB() rejects, inside the helper's try
\*   "reqfail" : the request placed on the object store fails later (error
\*               event).  put / delete / clear are awaited as plain values,
\*               so their helpers have already gone on; getAll's promise is
\*               returned from the try without await, so its rejection is
\*               the caller's.
Returned(op, outcome) ==
    CASE op = "put" -> IF outcome = "openfail" THEN "false" ELSE "true"
      [] op = "getAll" -> IF outcome = "openfail" THEN "empty" ELSE "rejected"
      [] OTHER -> "done"
NoCall == [op |-> "none", outcome |-> "ok", result |-> "none"]
Failed(last, op, outcome) ==
    IF outcome = "ok" THEN last
    ELSE [op |-> op, outcome |-> outcome, result |-> Returned(op, outcome)]

\* downloadAll's archive folder before any file is added
NoZip == [n \in {} |-> 0]

\* the relay between two requests
NoUp == [kind |-> "none", status |-> 0, data |-> [none |-> ""]]
NoRq == [contentType |-> <<"", "">>, hasBody |-> FALSE, bytes |-> 0,
         body |-> [kind |-> "none", length |-> Undefined], up |-> NoUp]
NoRs == [status |-> 0, body |-> [none |-> ""]]

VARIABLES
    files,          \* App state `files`: sequence of job records
    isProcessing,   \* App state `isProcessing`
    store,          \* object store 'files': id -> record
    dbq,            \* pending store calls, in openDB order
    loadPc,         \* initial load effect: "open", "deliver", "done", "dead"
    loadResult,     \* savedFiles, once getAll has read them
    ingest,         \* the running processNewFiles calls, by slot
    runPc,          \* startCompression: "idle", "fetch", "save"
    pendingFiles,   \* startCompression's selection
    runIdx,         \* position of the loop in pendingFiles
    runResult,      \* the record compressFile is about to return
    nextId,         \* next fresh id
    failCount,      \* store calls that have failed so far
    reloads,        \* page reloads so far
    sent,           \* history: id -> fetches issued for it by the current run
    lateIds,        \* history: ids appended to `files` during the latest run
    removed,        \* history: ids whose removeFile has completed
    cleared,        \* history: a clearAll completed with no processNewFiles
                    \* call running, and none was started since
    apiKey,         \* App state `apiKey` (also the localStorage entry)
    runKey,         \* the `apiKey` the running startCompression closed over
    request,        \* the fetch that is out: url and Authorization header
    refused,        \* history: a start click was turned down
    lastResp,       \* the answer compressFile is working on
    lastCall,       \* history: the latest store call that failed, and what
                    \* its helper gave back to the caller
    exPc,           \* downloadAll: "idle", "fetching", "done", "failed"
    successFiles,   \* downloadAll's selection
    exOutcome,      \* downloadAll: how the fetch of each selected item ended
    zip,            \* downloadAll: the folder of the archive, name -> blob
    envKey,         \* relay: process.env.TINIFY_API_KEY
    rq,             \* relay: the request being handled
    upSent,         \* relay: requests sent upstream for `rq`
    rs              \* relay: the response sent for `rq`

keyVars == <<apiKey, runKey, request, refused>>
exportVars == <<exPc, successFiles, exOutcome, zip>>
relayVars == <<envKey, rq, upSent, rs>>

vars == <<files, isProcessing, store, dbq, loadPc, loadResult, ingest, runPc,
          pendingFiles, runIdx, runResult, nextId, failCount, reloads, sent,
          lateIds, removed, cleared, keyVars, lastResp, lastCall, exportVars,
          relayVars>>

\* ----------------------------------------------------------------- records
NoRec == [id |-> 0, name |-> <<"", "">>, originalSize |-> 0, type |-> <<"", "">>,
          status |-> "none", compressedSize |-> 0, url |-> Null, error |-> Null]

\* variant: a file is recorded as being compressed from the start
NewRecordCompressing(id, file) ==
    [id |-> id, name |-> file.name, originalSize |-> file.size,
     type |-> file.type, status |-> "compressing", compressedSize |-> 0,
     url |-> Null, error |-> Null]

\* fileData of processNewFiles (timestamp and fileBlob are never read back by
\* the handlers modelled here and are left out)
NewRecord(id, file) ==
    [id |-> id, name |-> file.name, originalSize |-> file.size,
     type |-> file.type, status |-> "pending", compressedSize |-> 0,
     url |-> Null, error |-> Null]

\* ------------------------------------------------------- processNewFiles
\* file.type.startsWith('image/')
IsImageType(type) == type[1] = "image"

\* the /i flag of the extension test
Lower(ext) ==
    CASE ext = "PNG" -> "png"
      [] ext = "JPG" -> "jpg"
      [] ext = "JPEG" -> "jpeg"
      [] ext = "WEBP" -> "webp"
      [] OTHER -> ext

\* /\.(png|jpe?g|webp)$/i.test(file.name)
HasImageExt(name) == Lower(name[2]) \in {"png", "jpg", "jpeg", "webp"}

Accepted(file) == IsImageType(file.type) \/ HasImageExt(file.name)

\* variant: the size of the file is compared with the size of the result
IsDuplicateByResultSize(file, snapshot) ==
    \E i \in 1 .. Len(snapshot) :
        snapshot[i].name = file.name /\ snapshot[i].compressedSize = file.size

\* files.some(f => f.name === file.name && f.originalSize === file.size),
\* on the `files` the handler closed over
IsDuplicate(file, snapshot) ==
    \E i \in 1 .. Len(snapshot) :
        snapshot[i].name = file.name /\ snapshot[i].originalSize = file.size

\* The files of a batch that pass both `continue` tests.  Both tests read
\* only the file and the closed-over `files`, so the outcome of every
\* iteration is fixed when the handler is called.
ToCreate(batch, snapshot) ==
    SelectSeq(batch, LAMBDA f : Accepted(f) /\ ~IsDuplicate(f, snapshot))

\* ------------------------------------------------------------ compressFile
\* variant: the retry keeps the old message
UpdatedItemKeepsError(fileItem) == [fileItem EXCEPT !.status = "compressing"]

UpdatedItem(fileItem) == [fileItem EXCEPT !.status = "compressing", !.error = Null]

\* variant: the result location is not taken over
SuccessItemNoUrl(fileItem, resp) ==
    [UpdatedItem(fileItem) EXCEPT !.status = "success",
                                  !.compressedSize = resp.outSize]

SuccessItem(fileItem, resp) ==
    [UpdatedItem(fileItem) EXCEPT !.status = "success",
                                  !.compressedSize = resp.outSize,
                                  !.url = resp.outUrl]

\* variant: the failure record is spread from updatedItem with only the
\* message set
ErrorItemStillCompressing(fileItem, msg) ==
    [fileItem EXCEPT !.status = "compressing", !.error = msg]

ErrorItem(fileItem, msg) == [fileItem EXCEPT !.status = "error", !.error = msg]

\* data.output && data.output.url
HasResult(resp) == resp.hasOutput /\ resp.outUrl # Null

\* variant: the body of a rejection is not looked at
ErrorMessageStatusOnly(resp) ==
    IF resp.kind = "net" THEN "Failed to fetch"
    ELSE IF ~resp.ok THEN resp.statusText
    ELSE IF resp.body = "none" THEN "Unexpected end of JSON input"
    ELSE "Invalid response"

\* error.message of whatever reaches the catch block
ErrorMessage(resp) ==
    IF resp.kind = "net" THEN "Failed to fetch"
    ELSE IF ~resp.ok
         THEN (IF resp.body = "json" /\ resp.message # ""
               THEN resp.message ELSE resp.statusText)
    ELSE IF resp.body = "none" THEN "Unexpected end of JSON input"
    ELSE "Invalid response"

\* variant: a transport failure is not turned into a record
CompressResultUncaught(fileItem, resp) ==
    IF resp.kind = "http" /\ resp.ok /\ resp.body = "json" /\ HasResult(resp)
    THEN SuccessItem(fileItem, resp)
    ELSE IF resp.ok THEN ErrorItem(fileItem, ErrorMessage(resp))
    ELSE UpdatedItem(fileItem)

\* the record compressFile saves and returns for one answer of the endpoint
CompressResult(fileItem, resp) ==
    IF resp.kind = "http" /\ resp.ok /\ resp.body = "json" /\ HasResult(resp)
    THEN SuccessItem(fileItem, resp)
    ELSE ErrorItem(fileItem, ErrorMessage(resp))

\* --------------------------------------------------------------- the list
FileIds(fs) == {fs[i].id : i \in 1 .. Len(fs)}

\* variant: the map without its id test
MapFilesNoIdTest(fs, rec) == [i \in 1 .. Len(fs) |-> rec]

\* prev.map(f => f.id === rec.id ? rec : f)
MapFiles(fs, rec) == [i \in 1 .. Len(fs) |-> IF fs[i].id = rec.id THEN rec ELSE fs[i]]

\* prev.filter(f => f.id !== id)
FilterOut(fs, id) == SelectSeq(fs, LAMBDA f : f.id # id)

\* files.filter(f => f.status === 'pending' || f.status === 'error')
Selectable(f) == f.status \in {"pending", "error"}
Selection(fs) == SelectSeq(fs, Selectable)

\* -------------------------------------------------------------- the store
StorePut(st, rec) == [i \in DOMAIN st \cup {rec.id} |-> IF i = rec.id THEN rec ELSE st[i]]
StoreDelete(st, id) == [i \in DOMAIN st \ {id} |-> st[i]]
StoreClear == [i \in {} |-> NoRec]

RECURSIVE SortedIds(_)
SortedIds(S) ==
    IF S = {} THEN <<>>
    ELSE LET m == CHOOSE x \in S : \A y \in S : x <= y
         IN <<m>> \o SortedIds(S \ {m})

\* variant: the record with the greatest key is not read
StoreGetAllButLast(st) ==
    LET ks == SortedIds(DOMAIN st) IN [i \in 1 .. Len(ks) - 1 |-> st[ks[i]]]

\* store.getAll(): the records in key order
StoreGetAll(st) == LET ks == SortedIds(DOMAIN st) IN [i \in 1 .. Len(ks) |-> st[ks[i]]]

\* one queued store call
\* (owner: the handler that awaits it; id: the key of a delete, or the slot
\* of the processNewFiles call; rec: the record of a put)
Call(op, owner, id, rec) == [op |-> op, owner |-> owner, id |-> id, rec |-> rec]

\* variant: a put is not placed before the helper returns
ServedWithoutPut(st, call, outcome) ==
    IF outcome # "ok" THEN st
    ELSE CASE call.op = "delete" -> StoreDelete(st, call.id)
           [] call.op = "clear" -> StoreClear
           [] OTHER -> st

\* the store after the call at the head of the queue has been served
Served(st, call, outcome) ==
    IF outcome # "ok" THEN st
    ELSE CASE call.op = "put" -> StorePut(st, call.rec)
           [] call.op = "delete" -> StoreDelete(st, call.id)
           [] call.op = "clear" -> StoreClear
           [] OTHER -> st

MayFail(outcome) == outcome = "ok" \/ failCount < MaxFail
FailCount(outcome) == IF outcome = "ok" THEN failCount ELSE failCount + 1

Slots == 1 .. MaxIngests
IngestIdle == [pc |-> "idle", todo |-> <<>>, newFiles |-> <<>>]
NoSent == [i \in Ids |-> 0]

\* -------------------------------------------------------------------- Init
\* A freshly opened page on an empty database: the mount effect has called
\* getAllFilesFromDB().
Init ==
    /\ files = <<>>
    /\ isProcessing = FALSE
    /\ store = StoreClear
    /\ dbq = <<Call("getAll", "load", 0, NoRec)>>
    /\ loadPc = "open"
    /\ loadResult = <<>>
    /\ ingest = [k \in Slots |-> IngestIdle]
    /\ runPc = "idle"
    /\ pendingFiles = <<>>
    /\ runIdx = 0
    /\ runResult = NoRec
    /\ nextId = 1
    /\ failCount = 0
    /\ reloads = 0
    /\ sent = NoSent
    /\ lateIds = {}
    /\ removed = {}
    /\ cleared = FALSE
    /\ apiKey = NoKey
    /\ runKey = NoKey
    /\ request = NoRequest
    /\ refused = FALSE
    /\ lastResp = NoResp
    /\ lastCall = NoCall
    /\ exPc = "idle"
    /\ successFiles = <<>>
    /\ exOutcome = <<>>
    /\ zip = NoZip
    /\ envKey = NoKey
    /\ rq = NoRq
    /\ upSent = 0
    /\ rs = NoRs

\* -------------------------------------------------------------- the handlers
HeadIs(owner) == dbq # <<>> /\ Head(dbq).owner = owner

\* The mount effect's getAllFilesFromDB() reaches the store.  A failed open
\* is caught and yields []; a failed getAll request rejects the promise that
\* is returned, not awaited, inside the try, so loadFiles never resumes.
LoadRead(outcome) ==
    /\ HeadIs("load")
    /\ MayFail(outcome)
    /\ dbq' = Tail(dbq)
    /\ failCount' = FailCount(outcome)
    /\ loadResult' = IF outcome = "ok" THEN StoreGetAll(store) ELSE <<>>
    /\ loadPc' = IF outcome = "reqfail" THEN "dead" ELSE "deliver"
    /\ UNCHANGED <<files, isProcessing, store, ingest, runPc, pendingFiles,
                   runIdx, runResult, nextId, reloads, sent, lateIds, removed,
                   cleared>>
    /\ lastCall' = Failed(lastCall, Head(dbq).op, outcome)
    /\ UNCHANGED <<apiKey, runKey, request, refused, lastResp, exportVars, relayVars>>

\* setFiles(savedFiles)
LoadDeliver ==
    /\ loadPc = "deliver"
    /\ files' = loadResult
    /\ loadPc' = "done"
    /\ loadResult' = <<>>
    /\ UNCHANGED <<isProcessing, store, dbq, ingest, runPc,
                   pendingFiles, runIdx, runResult, nextId, failCount, reloads,
                   sent, lateIds, removed, cleared>>
    /\ UNCHANGED <<apiKey, runKey, request, refused, lastResp, lastCall, exportVars, relayVars>>

\* ids the running processNewFiles calls will still draw
RECURSIVE Reserved(_)
Reserved(S) ==
    IF S = {} THEN 0
    ELSE LET k == CHOOSE x \in S : TRUE
         IN Len(ingest[k].todo) + Reserved(S \ {k})

\* handleFileSelect / handleDrop: processNewFiles(batch) runs up to its first
\* await saveFileToDB(fileData).  A batch with nothing to create returns
\* without touching anything.
IngestStart(k, batch) ==
    /\ ingest[k].pc = "idle"
    /\ \A j \in Slots : j < k => ingest[j].pc # "idle"   \* calls are anonymous
    /\ Len(dbq) < MaxPending
    /\ LET todo == ToCreate(batch, files) IN
        /\ nextId + Reserved(Slots) + Len(todo) - 1 <= MaxIds
        /\ IF todo = <<>>
           THEN UNCHANGED <<ingest, dbq, nextId>>
           ELSE /\ ingest' = [ingest EXCEPT ![k] =
                                [pc |-> "save", todo |-> Tail(todo), newFiles |-> <<>>]]
                /\ dbq' = Append(dbq, Call("put", "ingest", k, NewRecord(nextId, Head(todo))))
                /\ nextId' = nextId + 1
    /\ cleared' = FALSE
    /\ UNCHANGED <<files, isProcessing, store, loadPc, loadResult, runPc,
                   pendingFiles, runIdx, runResult, failCount, reloads, sent,
                   lateIds, removed>>
    /\ UNCHANGED <<apiKey, runKey, request, refused, lastResp, lastCall, exportVars, relayVars>>

\* variant: a file whose save failed is left out of the batch's records
PushedIfSaved(newFiles, rec, outcome) ==
    IF outcome = "ok" THEN Append(newFiles, rec) ELSE newFiles

\* await saveFileToDB(fileData); newFiles.push(fileData): the value the save
\* returns is not looked at
Pushed(newFiles, rec, outcome) == Append(newFiles, rec)

\* saveFileToDB(fileData) returns (its result is ignored); newFiles.push;
\* then the next file of the batch, or the final setFiles(prev => [...prev,
\* ...newFiles]).
IngestSaved(k, outcome) ==
    /\ HeadIs("ingest")
    /\ Head(dbq).id = k
    /\ MayFail(outcome)
    /\ failCount' = FailCount(outcome)
    /\ store' = Served(store, Head(dbq), outcome)
    /\ LET newFiles == Pushed(ingest[k].newFiles, Head(dbq).rec, outcome)
           todo == ingest[k].todo
       IN IF todo # <<>>
          THEN /\ ingest' = [ingest EXCEPT ![k] =
                               [pc |-> "save", todo |-> Tail(todo), newFiles |-> newFiles]]
               /\ dbq' = Append(Tail(dbq), Call("put", "ingest", k, NewRecord(nextId, Head(todo))))
               /\ nextId' = nextId + 1
               /\ UNCHANGED <<files, lateIds>>
          ELSE /\ ingest' = [ingest EXCEPT ![k] = IngestIdle]
               /\ dbq' = Tail(dbq)
               /\ files' = files \o newFiles
               /\ lateIds' = IF runPc # "idle" THEN lateIds \cup FileIds(newFiles) ELSE lateIds
               /\ UNCHANGED nextId
    /\ UNCHANGED <<isProcessing, loadPc, loadResult, runPc, pendingFiles,
                   runIdx, runResult, reloads, sent, removed, cleared>>
    /\ lastCall' = Failed(lastCall, Head(dbq).op, outcome)
    /\ UNCHANGED <<apiKey, runKey, request, refused, lastResp, exportVars, relayVars>>

\* The trash button of a listed item: removeFile(id) up to its await.
RemoveStart(id) ==
    /\ id \in FileIds(files)
    /\ Len(dbq) < MaxPending
    /\ dbq' = Append(dbq, Call("delete", "remove", id, NoRec))
    /\ UNCHANGED <<files, isProcessing, store, loadPc, loadResult, ingest,
                   runPc, pendingFiles, runIdx, runResult, nextId, failCount,
                   reloads, sent, lateIds, removed, cleared>>
    /\ UNCHANGED <<apiKey, runKey, request, refused, lastResp, lastCall, exportVars, relayVars>>

\* deleteFileFromDB(id) returns; setFiles(prev => prev.filter(...)).
RemoveDone(outcome) ==
    /\ HeadIs("remove")
    /\ MayFail(outcome)
    /\ failCount' = FailCount(outcome)
    /\ store' = Served(store, Head(dbq), outcome)
    /\ dbq' = Tail(dbq)
    /\ files' = FilterOut(files, Head(dbq).id)
    /\ removed' = removed \cup {Head(dbq).id}
    /\ UNCHANGED <<isProcessing, loadPc, loadResult, ingest, runPc,
                   pendingFiles, runIdx, runResult, nextId, reloads, sent,
                   lateIds, cleared>>
    /\ lastCall' = Failed(lastCall, Head(dbq).op, outcome)
    /\ UNCHANGED <<apiKey, runKey, request, refused, lastResp, exportVars, relayVars>>

\* The clear button (rendered when files is not empty, disabled while
\* isProcessing), confirmed: clearAll up to its await.
ClearStart ==
    /\ files # <<>>
    /\ ~isProcessing
    /\ Len(dbq) < MaxPending
    /\ dbq' = Append(dbq, Call("clear", "clear", 0, NoRec))
    /\ UNCHANGED <<files, isProcessing, store, loadPc, loadResult, ingest,
                   runPc, pendingFiles, runIdx, runResult, nextId, failCount,
                   reloads, sent, lateIds, removed, cleared>>
    /\ UNCHANGED <<apiKey, runKey, request, refused, lastResp, lastCall, exportVars, relayVars>>

\* clearDB() returns; setFiles([]).
ClearDone(outcome) ==
    /\ HeadIs("clear")
    /\ MayFail(outcome)
    /\ failCount' = FailCount(outcome)
    /\ store' = Served(store, Head(dbq), outcome)
    /\ dbq' = Tail(dbq)
    /\ files' = <<>>
    \* (history) a processNewFiles call still running will append its records
    /\ cleared' = (\A k \in Slots : ingest[k].pc = "idle")
    /\ UNCHANGED <<isProcessing, loadPc, loadResult, ingest, runPc,
                   pendingFiles, runIdx, runResult, nextId, reloads, sent,
                   lateIds, removed>>
    /\ lastCall' = Failed(lastCall, Head(dbq).op, outcome)
    /\ UNCHANGED <<apiKey, runKey, request, refused, lastResp, exportVars, relayVars>>

\* The start button (enabled when not isProcessing and some listed job is
\* pending or error): startCompression up to the fetch of the first selected
\* job, i.e. through the synchronous head of compressFile.
RunStart ==
    /\ ~isProcessing
    /\ \E i \in 1 .. Len(files) : Selectable(files[i])
    /\ isProcessing' = TRUE
    /\ pendingFiles' = Selection(files)
    /\ runIdx' = 1
    /\ files' = MapFiles(files, UpdatedItem(pendingFiles'[1]))
    /\ runPc' = "fetch"
    /\ sent' = [NoSent EXCEPT ![pendingFiles'[1].id] = 1]
    /\ lateIds' = {}
    /\ UNCHANGED <<store, dbq, loadPc, loadResult, ingest, runResult, nextId,
                   failCount, reloads, removed, cleared>>
    /\ runKey' = apiKey
    /\ request' = Request(runKey')
    /\ UNCHANGED <<apiKey, refused, lastResp, lastCall, exportVars, relayVars>>

\* The endpoint answers (or the fetch rejects): compressFile builds
\* successItem or errorItem and calls saveFileToDB on it.
RunResponse(resp) ==
    /\ runPc = "fetch"
    /\ runResult' = CompressResult(pendingFiles[runIdx], resp)
    /\ dbq' = Append(dbq, Call("put", "run", 0, runResult'))
    /\ runPc' = "save"
    /\ UNCHANGED <<files, isProcessing, store, loadPc, loadResult, ingest,
                   pendingFiles, runIdx, nextId, failCount, reloads, sent,
                   lateIds, removed, cleared>>
    /\ request' = NoRequest
    /\ lastResp' = resp
    /\ UNCHANGED <<apiKey, runKey, refused, lastCall, exportVars, relayVars>>

\* variant: the loop gives up at the first failed job
LoopStopsOnError(idx, sel, result) == idx < Len(sel) /\ result.status # "error"

\* for (const file of pendingFiles): the loop moves on to the next element
\* whatever `result` the element before it gave
LoopContinues(idx, sel, result) == idx < Len(sel)

\* saveFileToDB returns, compressFile returns the record, startCompression
\* applies it to the list and either enters compressFile for the next
\* selected job or ends with setIsProcessing(false).
RunSaved(outcome) ==
    /\ HeadIs("run")
    /\ MayFail(outcome)
    /\ failCount' = FailCount(outcome)
    /\ store' = Served(store, Head(dbq), outcome)
    /\ dbq' = Tail(dbq)
    /\ LET applied == MapFiles(files, runResult) IN
        IF LoopContinues(runIdx, pendingFiles, runResult)
        THEN /\ runIdx' = runIdx + 1
             /\ files' = MapFiles(applied, UpdatedItem(pendingFiles[runIdx + 1]))
             /\ sent' = [sent EXCEPT ![pendingFiles[runIdx + 1].id] = @ + 1]
             /\ runPc' = "fetch"
             /\ request' = Request(runKey)
             /\ UNCHANGED <<isProcessing, pendingFiles, lateIds, runKey>>
        ELSE /\ files' = applied
             /\ isProcessing' = FALSE
             /\ runPc' = "idle"
             /\ pendingFiles' = <<>>
             /\ runIdx' = 0
             /\ sent' = NoSent
             /\ request' = NoRequest
             /\ runKey' = NoKey
             /\ UNCHANGED lateIds
    /\ runResult' = NoRec
    /\ UNCHANGED <<loadPc, loadResult, ingest, nextId, reloads, removed, cleared>>
    /\ lastCall' = Failed(lastCall, Head(dbq).op, outcome)
    /\ lastResp' = NoResp
    /\ UNCHANGED <<apiKey, refused, exportVars, relayVars>>

\* The page is reloaded: every handler and every store call still waiting
\* for its open dies with the page; the component state is re-created and
\* the mount effect runs again.
Reload ==
    /\ reloads < MaxReloads
    /\ reloads' = reloads + 1
    /\ files' = <<>>
    /\ isProcessing' = FALSE
    /\ dbq' = <<Call("getAll", "load", 0, NoRec)>>
    /\ loadPc' = "open"
    /\ loadResult' = <<>>
    /\ ingest' = [k \in Slots |-> IngestIdle]
    /\ runPc' = "idle"
    /\ pendingFiles' = <<>>
    /\ runIdx' = 0
    /\ runResult' = NoRec
    /\ sent' = NoSent
    /\ lateIds' = {}
    /\ UNCHANGED <<store, nextId, failCount, removed, cleared>>
    /\ runKey' = NoKey
    /\ request' = NoRequest
    /\ lastResp' = NoResp
    /\ exPc' = "idle"
    /\ successFiles' = <<>>
    /\ exOutcome' = <<>>
    /\ zip' = NoZip
    /\ UNCHANGED <<apiKey, refused, lastCall, relayVars>>

\* The interleaving model: every handler, a store that works.
Next ==
    \/ \E o \in WorkingStore : LoadRead(o)
    \/ LoadDeliver
    \/ \E k \in Slots, b \in Batches : IngestStart(k, b)
    \/ \E k \in Slots, o \in WorkingStore : IngestSaved(k, o)
    \/ \E id \in Ids : RemoveStart(id)
    \/ \E o \in WorkingStore : RemoveDone(o)
    \/ ClearStart
    \/ \E o \in WorkingStore : ClearDone(o)
    \/ RunStart
    \/ \E r \in CoreResponses : RunResponse(r)
    \/ \E o \in WorkingStore : RunSaved(o)

Spec == Init /\ [][Next]_vars

\* The response model: the endpoint may give any of the answers of
\* Responses, and the user takes turns: files are handed over once the
\* initial load is done and while no run is active and no store call is
\* pending, and a run is started while no store call is pending.
NextResp ==
    \/ \E o \in WorkingStore : LoadRead(o)
    \/ LoadDeliver
    \/ \E k \in Slots, b \in Batches :
          runPc = "idle" /\ loadPc = "done" /\ dbq = <<>> /\ IngestStart(k, b)
    \/ \E k \in Slots, o \in WorkingStore : IngestSaved(k, o)
    \/ dbq = <<>> /\ RunStart
    \/ \E r \in Responses : RunResponse(r)
    \/ \E o \in WorkingStore : RunSaved(o)

SpecResp == Init /\ [][NextResp]_vars

\* ------------------------------------------------------------ the API key
\* what the user may type into the key field
TypedKeys == {"", " ", "k1", " k1 "}

\* e.target.value.trim()
Trim(typed) ==
    CASE typed = " " -> ""
      [] typed = " k1 " -> "k1"
      [] OTHER -> typed

\* handleApiKeyChange: the field is enabled at all times
SetApiKey(typed) ==
    /\ Trim(typed) # apiKey
    /\ apiKey' = Trim(typed)
    /\ UNCHANGED <<files, isProcessing, store, dbq, loadPc, loadResult, ingest,
                   runPc, pendingFiles, runIdx, runResult, nextId, failCount,
                   reloads, sent, lateIds, removed, cleared, runKey, request,
                   refused, lastResp, lastCall, exportVars, relayVars>>

\* The key model: the handlers of the response model with two answers, and
\* the key field.
NextKey ==
    \/ \E o \in WorkingStore : LoadRead(o)
    \/ LoadDeliver
    \/ \E t \in TypedKeys : SetApiKey(t)
    \/ \E k \in Slots, b \in Batches :
          runPc = "idle" /\ loadPc = "done" /\ IngestStart(k, b)
    \/ \E k \in Slots, o \in WorkingStore : IngestSaved(k, o)
    \/ dbq = <<>> /\ RunStart
    \/ \E r \in CoreResponses : RunResponse(r)
    \/ \E o \in WorkingStore : RunSaved(o)

SpecKey == Init /\ [][NextKey]_vars

\* ------------------------------------------------- the built bundle (dist)
\* dist/app.js is the page the extension loads.  Its handlers are those of
\* app.jsx except startCompression and compressFile.

\* the bundle's fetch: always the direct endpoint, always with the header
RequestDist(key) == [url |-> DirectUrl, auth |-> <<"Basic ", Btoa(<<"api:", key>>)>>]

\* error of the bundle's compressFile when it is entered without a key (the
\* source text is Chinese: "please set the API Key first")
NoKeyMessage == "qing xian shezhi API Key"

\* the bundle's loop from position `from` on when compressFile is entered
\* without a key: every remaining job gets the error record, nothing is
\* saved, nothing is fetched
RECURSIVE AllRefused(_, _, _)
AllRefused(fs, sel, from) ==
    IF from > Len(sel) THEN fs
    ELSE AllRefused(MapFiles(fs, ErrorItem(sel[from], NoKeyMessage)), sel, from + 1)

\* The start button of the bundle: startCompression alerts and returns when
\* no key is set; otherwise as in app.jsx, up to the first fetch.
RunStartDist ==
    /\ ~isProcessing
    /\ \E i \in 1 .. Len(files) : Selectable(files[i])
    /\ IF apiKey = NoKey
       THEN /\ refused' = TRUE
            /\ UNCHANGED <<files, isProcessing, pendingFiles, runIdx, runPc,
                           sent, lateIds, runKey, request>>
       ELSE /\ isProcessing' = TRUE
            /\ pendingFiles' = Selection(files)
            /\ runIdx' = 1
            /\ files' = MapFiles(files, UpdatedItem(pendingFiles'[1]))
            /\ runPc' = "fetch"
            /\ sent' = [NoSent EXCEPT ![pendingFiles'[1].id] = 1]
            /\ lateIds' = {}
            /\ runKey' = apiKey
            /\ request' = RequestDist(runKey')
            /\ UNCHANGED refused
    /\ UNCHANGED <<store, dbq, loadPc, loadResult, ingest, runResult, nextId,
                   failCount, reloads, removed, cleared, apiKey, lastResp,
                   lastCall, exportVars, relayVars>>

\* The bundle's loop after a save: the result is applied and compressFile is
\* entered for the next selected job with the key the run closed over.
RunSavedDist(outcome) ==
    /\ HeadIs("run")
    /\ MayFail(outcome)
    /\ failCount' = FailCount(outcome)
    /\ store' = Served(store, Head(dbq), outcome)
    /\ dbq' = Tail(dbq)
    /\ LET applied == MapFiles(files, runResult)
           more == LoopContinues(runIdx, pendingFiles, runResult)
       IN
        IF more /\ runKey # NoKey
        THEN /\ runIdx' = runIdx + 1
             /\ files' = MapFiles(applied, UpdatedItem(pendingFiles[runIdx + 1]))
             /\ sent' = [sent EXCEPT ![pendingFiles[runIdx + 1].id] = @ + 1]
             /\ runPc' = "fetch"
             /\ request' = RequestDist(runKey)
             /\ UNCHANGED <<isProcessing, pendingFiles, lateIds, runKey>>
        ELSE /\ files' = IF more THEN AllRefused(applied, pendingFiles, runIdx + 1)
                         ELSE applied
             /\ isProcessing' = FALSE
             /\ runPc' = "idle"
             /\ pendingFiles' = <<>>
             /\ runIdx' = 0
             /\ sent' = NoSent
             /\ request' = NoRequest
             /\ runKey' = NoKey
             /\ UNCHANGED lateIds
    /\ runResult' = NoRec
    /\ lastCall' = Failed(lastCall, Head(dbq).op, outcome)
    /\ lastResp' = NoResp
    /\ UNCHANGED <<loadPc, loadResult, ingest, nextId, reloads, removed, cleared,
                   apiKey, refused, exportVars, relayVars>>

\* The bundle model: the key model with the bundle's startCompression and
\* compressFile.
NextDist ==
    \/ \E o \in WorkingStore : LoadRead(o)
    \/ LoadDeliver
    \/ \E t \in TypedKeys : SetApiKey(t)
    \/ \E k \in Slots, b \in Batches :
          runPc = "idle" /\ loadPc = "done" /\ IngestStart(k, b)
    \/ \E k \in Slots, o \in WorkingStore : IngestSaved(k, o)
    \/ dbq = <<>> /\ RunStartDist
    \/ \E r \in CoreResponses : RunResponse(r)
    \/ \E o \in WorkingStore : RunSavedDist(o)

SpecDist == Init /\ [][NextDist]_vars

\* ------------------------------------------------------------- downloadAll
\* a second file called a.png, of another size
FileA2 == [name |-> <<"a", "png">>, size |-> 2, type |-> <<"image", "png">>]
ExportBatches == [1 .. 1 -> {FileA, FileA2, FileB}]

\* how the fetch of one result ends: a 2xx response, a response with
\* another status (fetch resolves all the same), or a rejection of fetch or
\* of response.blob()
FetchOutcomes == {"ok", "http", "reject"}

\* the blob of a response: whose result it is, and what kind of body
Blob(item, outcome) == [id |-> item.id, body |-> outcome]

\* folder.file(name, blob): a file added under a name that is already in
\* the folder takes its place
FolderFile(folder, name, blob) ==
    [n \in DOMAIN folder \cup {name} |-> IF n = name THEN blob ELSE folder[n]]

IsSuccess(f) == f.status = "success"

\* The download-all button (disabled while no listed job is 'success', and
\* by the handler while it runs): downloadAll up to its fetches, which are
\* all started at once.
DownloadAll ==
    /\ exPc # "fetching"
    /\ \E i \in 1 .. Len(files) : IsSuccess(files[i])
    /\ successFiles' = SelectSeq(files, IsSuccess)
    /\ exOutcome' = [i \in 1 .. Len(successFiles') |-> "wait"]
    /\ zip' = NoZip
    /\ exPc' = "fetching"
    /\ UNCHANGED <<files, isProcessing, store, dbq, loadPc, loadResult, ingest,
                   runPc, pendingFiles, runIdx, runResult, nextId, failCount,
                   reloads, sent, lateIds, removed, cleared, keyVars, lastResp,
                   lastCall, relayVars>>

\* The fetch of the i-th selected item ends, in any order among the items:
\* the blob is filed under item.name, or the rejection is caught and logged.
FetchSettled(i, outcome) ==
    /\ exPc = "fetching"
    /\ i \in 1 .. Len(successFiles)
    /\ exOutcome[i] = "wait"
    /\ exOutcome' = [exOutcome EXCEPT ![i] = outcome]
    /\ zip' = IF outcome = "reject" THEN zip
              ELSE FolderFile(zip, successFiles[i].name, Blob(successFiles[i], outcome))
    /\ UNCHANGED <<files, isProcessing, store, dbq, loadPc, loadResult, ingest,
                   runPc, pendingFiles, runIdx, runResult, nextId, failCount,
                   reloads, sent, lateIds, removed, cleared, keyVars, lastResp,
                   lastCall, exPc, successFiles, relayVars>>

\* Promise.all(promises) resolves, none of the promises can reject;
\* zip.generateAsync gives the archive ("ok") or rejects and the handler
\* alerts ("fail").
ExportFinish(gen) ==
    /\ exPc = "fetching"
    /\ \A i \in 1 .. Len(successFiles) : exOutcome[i] # "wait"
    /\ exPc' = IF gen = "ok" THEN "done" ELSE "failed"
    /\ UNCHANGED <<files, isProcessing, store, dbq, loadPc, loadResult, ingest,
                   runPc, pendingFiles, runIdx, runResult, nextId, failCount,
                   reloads, sent, lateIds, removed, cleared, keyVars, lastResp,
                   lastCall, successFiles, exOutcome, zip, relayVars>>

\* The export model: files are handed over one at a time, runs and exports
\* take turns.
NextExport ==
    \/ \E o \in WorkingStore : LoadRead(o)
    \/ LoadDeliver
    \/ \E k \in Slots, b \in ExportBatches :
          runPc = "idle" /\ loadPc = "done" /\ exPc # "fetching" /\ IngestStart(k, b)
    \/ \E k \in Slots, o \in WorkingStore : IngestSaved(k, o)
    \/ dbq = <<>> /\ exPc # "fetching" /\ RunStart
    \/ \E r \in CoreResponses : RunResponse(r)
    \/ \E o \in WorkingStore : RunSaved(o)
    \/ dbq = <<>> /\ runPc = "idle" /\ DownloadAll
    \/ \E i \in 1 .. MaxIds, o \in FetchOutcomes : FetchSettled(i, o)
    \/ \E g \in {"ok", "fail"} : ExportFinish(g)

SpecExport == Init /\ [][NextExport]_vars

\* The failure model: the handlers of the interleaving model with files
\* handed over between runs, and a store whose calls may fail, at the open
\* or at the request.
NextFail ==
    \/ \E o \in DBOutcomes : LoadRead(o)
    \/ LoadDeliver
    \/ \E k \in Slots, b \in Batches :
          runPc = "idle" /\ loadPc \in {"done", "dead"} /\ IngestStart(k, b)
    \/ \E k \in Slots, o \in DBOutcomes : IngestSaved(k, o)
    \/ \E id \in Ids : RemoveStart(id)
    \/ \E o \in DBOutcomes : RemoveDone(o)
    \/ ClearStart
    \/ \E o \in DBOutcomes : ClearDone(o)
    \/ dbq = <<>> /\ RunStart
    \/ \E r \in CoreResponses : RunResponse(r)
    \/ \E o \in DBOutcomes : RunSaved(o)

SpecFail == Init /\ [][NextFail]_vars

\* ------------------------------------------------- the filter of an ingest
\* files of every kind the two tests of processNewFiles tell apart: type and
\* extension agree, only the extension says image (in either case), only
\* the type says image, an image of another format, and no image at all
File(stem, ext, major, minor) ==
    [name |-> <<stem, ext>>, size |-> 1, type |-> <<major, minor>>]

FilterCandidates ==
    { FileA, FileB, FileT,
      File("p", "JPG", "", ""),
      File("q", "jpeg", "application", "octet-stream"),
      File("w", "webp", "image", "webp"),
      File("r", "bin", "image", "png"),
      File("g", "gif", "image", "gif"),
      File("s", "svg", "image", "svg+xml"),
      File("d", "pdf", "application", "pdf"),
      File("png", "", "", "") }

FilterBatches == [1 .. 1 -> FilterCandidates]

\* The filter model: files of every kind are handed over, one at a time.
NextFilter ==
    \/ \E o \in WorkingStore : LoadRead(o)
    \/ LoadDeliver
    \/ \E k \in Slots, b \in FilterBatches : loadPc = "done" /\ IngestStart(k, b)
    \/ \E k \in Slots, o \in WorkingStore : IngestSaved(k, o)

SpecFilter == Init /\ [][NextFilter]_vars

\* ---------------------------------------------------------------- the relay
\* A POST to /api/compress as it arrives: the Content-Type header (<<"", "">>
\* when there is none), whether the headers announce a body (Content-Length
\* or Transfer-Encoding), and the number of bytes of the body.
RelayRequests ==
    { [contentType |-> t, hasBody |-> h, bytes |-> n] :
         t \in {<<"image", "png">>, <<"application", "octet-stream">>,
                <<"application", "json">>, <<"text", "plain">>, <<"", "">>},
         h \in BOOLEAN, n \in 0 .. MaxBytes } \ 
    { [contentType |-> t, hasBody |-> FALSE, bytes |-> n] :
         t \in {<<"image", "png">>, <<"application", "octet-stream">>,
                <<"application", "json">>, <<"text", "plain">>, <<"", "">>},
         n \in 1 .. MaxBytes }

\* what body-parser leaves in req.body for a request no parser took: {} in
\* its 1.x releases, undefined in 2.x; the sources do not pin a release
Unparsed == {"object", "undefined"}

\* bodyParser.raw({type: ['image/*', 'application/octet-stream']}) followed
\* by bodyParser.json(): req.body is a Buffer of the bytes, the parsed JSON
\* object, or what is left for a request no parser took
BodyParser(req, unparsed) ==
    IF req.hasBody /\ (req.contentType[1] = "image"
                          \/ req.contentType = <<"application", "octet-stream">>)
    THEN [kind |-> "buffer", length |-> req.bytes]
    ELSE IF req.hasBody /\ req.contentType = <<"application", "json">>
    THEN [kind |-> "object", length |-> Undefined]
    ELSE [kind |-> unparsed, length |-> Undefined]

\* !req.body || req.body.length === 0
IsEmptyBody(body) == body.kind = "undefined" \/ body.length = 0

\* Answers of the compression endpoint to the relay: kind "net" is a
\* transport failure; data is the parsed JSON body.
UpAnswers ==
    { [kind |-> "http", status |-> 201, data |-> [output |-> "https://x/y"]],
      [kind |-> "http", status |-> 200, data |-> [output |-> "https://x/y"]],
      [kind |-> "http", status |-> 401,
       data |-> [error |-> "Unauthorized", message |-> "Credentials are invalid."]],
      [kind |-> "http", status |-> 415,
       data |-> [error |-> "Unsupported media type", message |-> "File type is not supported."]],
      [kind |-> "http", status |-> 503, data |-> [none |-> ""]],
      [kind |-> "net", status |-> 0, data |-> [none |-> ""]] }

Json(status, body) == [status |-> status, body |-> body]

RelayIdle == rq = NoRq \/ rs # NoRs

\* The relay process is (re)started with a value of TINIFY_API_KEY.
RelayConfigure(key) ==
    /\ RelayIdle
    /\ key # envKey
    /\ envKey' = key
    /\ rq' = NoRq
    /\ rs' = NoRs
    /\ upSent' = 0
    /\ UNCHANGED <<files, isProcessing, store, dbq, loadPc, loadResult, ingest,
                   runPc, pendingFiles, runIdx, runResult, nextId, failCount,
                   reloads, sent, lateIds, removed, cleared, keyVars, lastResp,
                   lastCall, exportVars>>

\* A POST arrives: the middleware fills req.body and the handler runs up to
\* a response or to its await of axios.post.
RelayPost(req, unparsed) ==
    /\ RelayIdle
    /\ LET body == BodyParser(req, unparsed) IN
        /\ rq' = [contentType |-> req.contentType, hasBody |-> req.hasBody,
                  bytes |-> req.bytes, body |-> body, up |-> NoUp]
        /\ IF envKey = NoKey
           THEN /\ rs' = Json(500, [error |-> "Server Configuration Error",
                                    message |-> "Tinify API Key is not configured on the server."])
                /\ upSent' = 0
           ELSE IF IsEmptyBody(body)
           THEN /\ rs' = Json(400, [error |-> "Bad Request",
                                    message |-> "No image data provided in the request body."])
                /\ upSent' = 0
           ELSE /\ rs' = NoRs
                /\ upSent' = 1
    /\ UNCHANGED <<files, isProcessing, store, dbq, loadPc, loadResult, ingest,
                   runPc, pendingFiles, runIdx, runResult, nextId, failCount,
                   reloads, sent, lateIds, removed, cleared, keyVars, lastResp,
                   lastCall, exportVars, envKey>>

\* axios.post settles: it rejects on a transport failure and, by
\* validateStatus, on a status of 500 or more.
RelayUpstream(ans) ==
    /\ ~RelayIdle
    /\ rq' = [rq EXCEPT !.up = ans]
    /\ rs' = IF ans.kind = "net" \/ ans.status >= 500
             THEN Json(500, [error |-> "Proxy Error",
                             message |-> "Failed to communicate with Tinify API.",
                             details |-> "error.message"])
             ELSE IF ans.status >= 400
             THEN Json(ans.status, ans.data)
             ELSE Json(200, ans.data)
    /\ UNCHANGED <<files, isProcessing, store, dbq, loadPc, loadResult, ingest,
                   runPc, pendingFiles, runIdx, runResult, nextId, failCount,
                   reloads, sent, lateIds, removed, cleared, keyVars, lastResp,
                   lastCall, exportVars, envKey, upSent>>

\* The relay model.
NextRelay ==
    \/ \E key \in {NoKey, KeyK} : RelayConfigure(key)
    \/ \E req \in RelayRequests, u \in Unparsed : RelayPost(req, u)
    \/ \E ans \in UpAnswers : RelayUpstream(ans)

SpecRelay == Init /\ [][NextRelay]_vars

\* The progress model: a store whose calls may fail, files handed over one
\* at a time between runs, jobs removed while a request is out; every store
\* call that was made is served, and every request that is out is answered
\* or fails.
OneFileBatches == [1 .. 1 -> Candidates]

NextLive ==
    \/ \E o \in DBOutcomes : LoadRead(o)
    \/ LoadDeliver
    \/ \E k \in Slots, b \in OneFileBatches :
          runPc = "idle" /\ loadPc \in {"done", "dead"} /\ dbq = <<>> /\ IngestStart(k, b)
    \/ \E k \in Slots, o \in DBOutcomes : IngestSaved(k, o)
    \/ \E id \in Ids : request # NoRequest /\ dbq = <<>> /\ RemoveStart(id)
    \/ \E o \in DBOutcomes : RemoveDone(o)
    \/ dbq = <<>> /\ RunStart
    \/ \E r \in CoreResponses : RunResponse(r)
    \/ \E o \in DBOutcomes : RunSaved(o)

StoreServes ==
    \/ \E o \in DBOutcomes : LoadRead(o)
    \/ \E k \in Slots, o \in DBOutcomes : IngestSaved(k, o)
    \/ \E o \in DBOutcomes : RemoveDone(o)
    \/ \E o \in DBOutcomes : RunSaved(o)

EndpointAnswers == \E r \in CoreResponses : RunResponse(r)

SpecLive ==
    Init /\ [][NextLive]_vars /\ WF_vars(StoreServes) /\ WF_vars(EndpointAnswers)

\* The reload model: a store that works, files handed over between runs (also
\* before the load is done), and the page reloaded at any point: idle, while
\* a batch is being saved, while a request is out or its result is being
\* saved.
NextReload ==
    \/ \E o \in WorkingStore : LoadRead(o)
    \/ LoadDeliver
    \/ \E k \in Slots, b \in Batches :
          runPc = "idle" /\ IngestStart(k, b)
    \/ \E k \in Slots, o \in WorkingStore : IngestSaved(k, o)
    \/ dbq = <<>> /\ RunStart
    \/ \E r \in CoreResponses : RunResponse(r)
    \/ \E o \in WorkingStore : RunSaved(o)
    \/ Reload

SpecReload == Init /\ [][NextReload]_vars

\* The re-drop model: the same folder is dropped again and again, alone or
\* with one file added (b.jpg, or a second a.png of another size), each time
\* after the call before it has returned;
\* between the drops jobs are run and listed jobs are removed.
FolderDrops == {<<FileA>>, <<FileA, FileB>>, <<FileA, FileA2>>}

NextDrop ==
    \/ \E o \in WorkingStore : LoadRead(o)
    \/ LoadDeliver
    \/ \E k \in Slots, b \in FolderDrops :
          runPc = "idle" /\ loadPc = "done" /\ dbq = <<>> /\ IngestStart(k, b)
    \/ \E k \in Slots, o \in WorkingStore : IngestSaved(k, o)
    \/ \E id \in Ids : runPc = "idle" /\ dbq = <<>> /\ RemoveStart(id)
    \/ \E o \in WorkingStore : RemoveDone(o)
    \/ dbq = <<>> /\ RunStart
    \/ \E r \in CoreResponses : RunResponse(r)
    \/ \E o \in WorkingStore : RunSaved(o)

SpecDrop == Init /\ [][NextDrop]_vars

\* The interrupted-run model: as the reload model, with the page reloaded
\* only while a run is active (a request is out, or its result is waiting to
\* be saved).
NextMidRun ==
    \/ \E o \in WorkingStore : LoadRead(o)
    \/ LoadDeliver
    \/ \E k \in Slots, b \in Batches : runPc = "idle" /\ IngestStart(k, b)
    \/ \E k \in Slots, o \in WorkingStore : IngestSaved(k, o)
    \/ dbq = <<>> /\ RunStart
    \/ \E r \in CoreResponses : RunResponse(r)
    \/ \E o \in WorkingStore : RunSaved(o)
    \/ runPc # "idle" /\ Reload

SpecMidRun == Init /\ [][NextMidRun]_vars

TypeOK ==
    /\ isProcessing \in BOOLEAN
    /\ runPc \in {"idle", "fetch", "save"}
    /\ loadPc \in {"open", "deliver", "done", "dead"}
    /\ nextId \in 1 .. MaxIds + 1
    /\ DOMAIN store \subseteq Ids
    /\ FileIds(files) \subseteq Ids

\* =================================================================== claims
Compressing(fs) == {i \in 1 .. Len(fs) : fs[i].status = "compressing"}
StoreRecs == {store[i] : i \in DOMAIN store}
Busy(k) == ingest[k].pc # "idle"

\* C1: in every reachable state of the list, whatever Ingest, Remove,
\* ClearAll and RunAll triggers the UI let through, at most one job has
\* status 'compressing'.
C1_AtMostOneCompressing == Cardinality(Compressing(files)) <= 1

\* the run is at its second selected job: one result applied, one job in
\* flight, two jobs listed
C1_Witness ==
    /\ runPc = "fetch"
    /\ runIdx = 2
    /\ Len(files) = 2
    /\ Cardinality(Compressing(files)) = 1

\* C2: after any sequence of Ingest calls the list and the store each hold
\* at most one live record for any (name, originalSize) pair.
C2_OneRecordPerNameAndSize ==
    /\ \A i, j \in 1 .. Len(files) :
          (files[i].name = files[j].name /\ files[i].originalSize = files[j].originalSize)
              => i = j
    /\ \A i, j \in DOMAIN store :
          (store[i].name = store[j].name /\ store[i].originalSize = store[j].originalSize)
              => i = j

\* C5: a job appended to the list after a run took its selection is not sent
\* to the endpoint by that run, keeps status 'pending' in the list until a
\* later run starts, and no step of the run removes or changes it.
LateJobsWait ==
    \A id \in lateIds :
        /\ sent[id] = 0
        /\ \A i \in 1 .. Len(files) : files[i].id = id => files[i].status = "pending"

RunKeepsLateJobs ==
    (runPc # "idle" /\ runPc' # runPc) =>
        \A i \in 1 .. Len(files) :
            files[i].id \in lateIds => (i <= Len(files') /\ files'[i] = files[i])

C5_SnapshotIsolation == [] LateJobsWait /\ [][RunKeepsLateJobs]_vars

\* the run has ended with a result recorded while a late job waits in the list
C5_Witness ==
    /\ runPc = "idle"
    /\ \E i, j \in 1 .. Len(files) :
          /\ files[i].id \in lateIds
          /\ files[i].status = "pending"
          /\ files[j].status \in {"success", "error"}

\* C6: a job selected in status 'error' first shows in the list as
\* 'compressing' with its error message cleared; no step takes a listed
\* 'error' record straight to 'success' or to another 'error'.
RetryInFlightCleared ==
    runPc # "idle" =>
        \A i \in 1 .. Len(files) :
            files[i].id = pendingFiles[runIdx].id =>
                (files[i].status = "compressing" /\ files[i].error = Null)

ErrorLeavesViaCompressing ==
    \A i \in 1 .. Len(files), j \in 1 .. Len(files') :
        (files[i].status = "error" /\ files'[j].id = files[i].id) =>
            \/ files'[j] = files[i]
            \/ (files'[j].status = "compressing" /\ files'[j].error = Null)

C6_RetryClearsError == [] RetryInFlightCleared /\ [][ErrorLeavesViaCompressing]_vars

\* a job selected in 'error' is listed as 'compressing' without message while
\* its new 'error' record is on its way to the store
C6_Witness ==
    /\ runPc = "save"
    /\ pendingFiles[runIdx].status = "error"
    /\ runResult.status = "error"
    /\ \E i \in 1 .. Len(files) :
          /\ files[i].id = runResult.id
          /\ files[i].status = "compressing"
          /\ files[i].error = Null

\* C7: within one run every job of the selection gets exactly one request,
\* whatever the outcome of the jobs before it, and none gets a second one.
RequestedSoFar ==
    /\ \A id \in Ids : sent[id] <= 1
    /\ runPc # "idle" =>
          \A i \in 1 .. Len(pendingFiles) : sent[pendingFiles[i].id] = (IF i <= runIdx THEN 1 ELSE 0)
    /\ \A id \in Ids :
          sent[id] = 1 => \E i \in 1 .. Len(pendingFiles) : pendingFiles[i].id = id

RunEndsAfterLast ==
    (runPc = "save" /\ runPc' = "idle") =>
        \A i \in 1 .. Len(pendingFiles) : sent[pendingFiles[i].id] = 1

C7_OneRequestPerSelectedJob == [] RequestedSoFar /\ [][RunEndsAfterLast]_vars

\* the second selected job has its request out although the fetch of the
\* first one was rejected
C7_Witness ==
    /\ runPc = "fetch"
    /\ runIdx = 2
    /\ sent[pendingFiles[1].id] = 1
    /\ sent[pendingFiles[2].id] = 1
    /\ \E i \in 1 .. Len(files) :
          /\ files[i].id = pendingFiles[1].id
          /\ files[i].status = "error"
          /\ files[i].error = "Failed to fetch"

\* C8: once removeFile(id) has completed, the record with that id is absent
\* from the list and from the store, in that state and in every later one.
C8_RemovedStaysAbsent ==
    \A id \in removed : id \notin FileIds(files) /\ id \notin DOMAIN store

\* C9: once a confirmed clearAll has completed, the store and the list are
\* empty and stay empty until the next Ingest.
C9_ClearedStaysEmpty == cleared => (files = <<>> /\ DOMAIN store = {})

\* C10: when no Ingest, RunAll, Remove or ClearAll is in progress and no
\* store call has failed, the list and the store hold the same ids and, for
\* each id, the same status, compressedSize, url and error.
Quiet ==
    /\ dbq = <<>>
    /\ runPc = "idle"
    /\ loadPc = "done"
    /\ \A k \in Slots : ~Busy(k)

C10_ListMatchesStore ==
    (Quiet /\ failCount = 0) =>
        /\ FileIds(files) = DOMAIN store
        /\ \A i \in 1 .. Len(files) :
              LET r == store[files[i].id] IN
                  /\ r.status = files[i].status
                  /\ r.compressedSize = files[i].compressedSize
                  /\ r.url = files[i].url
                  /\ r.error = files[i].error

\* C3: every record with status 'success', in the list and in the store, has
\* a result url and compressedSize > 0, whatever 2xx body the endpoint sent.
SuccessComplete(r) == r.status = "success" => (r.url # Null /\ r.compressedSize > 0)

C3_SuccessHasUrlAndSize ==
    /\ \A i \in 1 .. Len(files) : SuccessComplete(files[i])
    /\ \A r \in StoreRecs : SuccessComplete(r)

\* C4: every record with status 'error' has a non-empty error message and
\* every record with status 'pending', 'compressing' or 'success' has none,
\* whatever failure the endpoint produced.
ErrorConsistent(r) ==
    IF r.status = "error" THEN r.error # Null /\ r.error # ""
    ELSE r.error = Null

C4_ErrorIffMessage ==
    /\ \A i \in 1 .. Len(files) : ErrorConsistent(files[i])
    /\ \A r \in StoreRecs : ErrorConsistent(r)

\* C11: the status of a record, in the list and in the store, only moves
\* pending -> compressing, error -> compressing, compressing -> success and
\* compressing -> error; a 'success' record keeps its status and no request
\* is issued for it.
StatusStep(old, new) ==
    \/ old = new
    \/ <<old, new>> \in {<<"pending", "compressing">>, <<"error", "compressing">>,
                         <<"compressing", "success">>, <<"compressing", "error">>}

ListFollowsMachine ==
    \A i \in 1 .. Len(files), j \in 1 .. Len(files') :
        files'[j].id = files[i].id => StatusStep(files[i].status, files'[j].status)

StoreFollowsMachine ==
    \A id \in DOMAIN store \cap DOMAIN store' :
        StatusStep(store[id].status, store'[id].status)

NoRequestForSuccess ==
    \A id \in Ids :
        sent'[id] > sent[id] =>
            /\ \A i \in 1 .. Len(files) : files[i].id = id => files[i].status # "success"
            /\ id \in DOMAIN store => store[id].status # "success"

C11_StatusFollowsMachine ==
    [][ListFollowsMachine /\ StoreFollowsMachine /\ NoRequestForSuccess]_vars

\* C12: a request is issued for the selected job whether or not a key is
\* configured: without a key it goes to the relay with no Authorization
\* header, with a key to the direct endpoint with the Basic header built
\* from 'api:' + key; no start is turned down and no job is put in 'error'
\* for the lack of a key.
RequestPolicy(req, key) ==
    IF key = NoKey
    THEN req.url = RelayUrl /\ req.auth = NoAuth
    ELSE req.url = DirectUrl /\ req.auth = <<"Basic ", Btoa(<<"api:", key>>)>>

RequestIssued == \E id \in Ids : sent'[id] > sent[id]

NoJobFailsForKey ==
    /\ \A i \in 1 .. Len(files) : files[i].error # NoKeyMessage
    /\ \A r \in StoreRecs : r.error # NoKeyMessage

C12_KeyDecidesEndpointOnly ==
    /\ [] (~refused /\ NoJobFailsForKey)
    /\ [][RequestIssued => RequestPolicy(request', apiKey')]_vars

\* the job whose answer is being saved, as the list and the store show it
\* once the save has been placed and the result applied
JobInFlight == pendingFiles[runIdx].id
ResultApplied == runPc = "save" /\ runPc' # "save"
Listed(id, P(_)) == \E i \in 1 .. Len(files') : files'[i].id = id /\ P(files'[i])
Stored(id, P(_)) == id \in DOMAIN store' /\ P(store'[id])

\* C13: a 2xx answer with body {output: {url: U, size: S}} makes the job's
\* record 'success' with url U, compressedSize S and no error, in the list
\* and in the store.
FullResult(resp) ==
    /\ resp.kind = "http" /\ resp.ok /\ resp.body = "json"
    /\ resp.hasOutput /\ resp.outUrl # Null /\ resp.outSize # Undefined

IsSuccessOf(resp, r) ==
    /\ r.status = "success"
    /\ r.url = resp.outUrl
    /\ r.compressedSize = resp.outSize
    /\ r.error = Null

SuccessBuilt ==
    (runPc = "save" /\ FullResult(lastResp)) =>
        (runResult.id = JobInFlight /\ IsSuccessOf(lastResp, runResult))

SuccessRecorded ==
    (ResultApplied /\ FullResult(lastResp)) =>
        /\ Listed(JobInFlight, LAMBDA r : IsSuccessOf(lastResp, r))
        /\ Stored(JobInFlight, LAMBDA r : IsSuccessOf(lastResp, r))

C13_SuccessFromFullResult == [] SuccessBuilt /\ [][SuccessRecorded]_vars

\* a job is listed and stored as 'success' with the url and size of the answer
C13_Witness ==
    \E i \in 1 .. Len(files) :
        /\ files[i].status = "success"
        /\ files[i].url = "https://x/y"
        /\ files[i].compressedSize = 1
        /\ files[i].id \in DOMAIN store
        /\ store[files[i].id] = files[i]

\* C14: a non-2xx answer makes the job's record 'error', in the list and in
\* the store, with the body's message when the body parses and has one and
\* the status text otherwise; compressedSize stays 0 and there is no url.
Rejected(resp) == resp.kind = "http" /\ ~resp.ok

IsRejectionOf(resp, r) ==
    /\ r.status = "error"
    /\ r.error = (IF resp.body = "json" /\ resp.message # ""
                  THEN resp.message ELSE resp.statusText)
    /\ r.compressedSize = 0
    /\ r.url = Null

RejectionBuilt ==
    (runPc = "save" /\ Rejected(lastResp)) =>
        (runResult.id = JobInFlight /\ IsRejectionOf(lastResp, runResult))

RejectionRecorded ==
    (ResultApplied /\ Rejected(lastResp)) =>
        /\ Listed(JobInFlight, LAMBDA r : IsRejectionOf(lastResp, r))
        /\ Stored(JobInFlight, LAMBDA r : IsRejectionOf(lastResp, r))

C14_ErrorFromRejection == [] RejectionBuilt /\ [][RejectionRecorded]_vars

\* one job carries the message of a rejection's body and another the status
\* text of a rejection without message, both in the list and in the store
C14_Witness ==
    \E i, j \in 1 .. Len(files) :
        /\ files[i].status = "error" /\ files[i].error = "Unsupported media type"
        /\ files[j].status = "error" /\ files[j].error = "Server Error"
        /\ files[i].id \in DOMAIN store /\ store[files[i].id] = files[i]
        /\ files[j].id \in DOMAIN store /\ store[files[j].id] = files[j]

\* C15: a 2xx answer whose body has no output descriptor, or whose output
\* has no url or no size, makes the job 'error' with message 'Invalid
\* response', never 'success'.
Incomplete(resp) ==
    /\ resp.kind = "http" /\ resp.ok /\ resp.body = "json"
    /\ (~resp.hasOutput \/ resp.outUrl = Null \/ resp.outSize = Undefined)

C15_IncompleteResultIsError ==
    (runPc = "save" /\ Incomplete(lastResp)) =>
        (runResult.status = "error" /\ runResult.error = "Invalid response")

\* C16: the archive has an entry for exactly the jobs that are 'success' and
\* whose result fetch did not fail, none for any other job; a failing fetch
\* neither stops the other fetches nor fails the export.
HasEntry(folder, job) == job.name \in DOMAIN folder /\ folder[job.name].id = job.id

FetchDidNotFail(job) ==
    \E k \in 1 .. Len(successFiles) :
        successFiles[k].id = job.id /\ exOutcome[k] # "reject"

ArchiveHasTheFetchedResults ==
    (exPc = "fetching" /\ exPc' = "done") =>
        \A i \in 1 .. Len(files) :
            HasEntry(zip', files[i]) <=> (IsSuccess(files[i]) /\ FetchDidNotFail(files[i]))

EveryFetchIsAwaited ==
    exPc \in {"done", "failed"} =>
        /\ Len(exOutcome) = Len(successFiles)
        /\ \A k \in 1 .. Len(successFiles) : exOutcome[k] # "wait"

C16_ArchiveOfFetchedSuccesses ==
    [] EveryFetchIsAwaited /\ [][ArchiveHasTheFetchedResults]_vars

\* C17: no store helper lets a failure through to its caller: when the open
\* or the request fails, put has returned false, getAll has returned the
\* empty sequence, delete and clear have completed normally.
C17_StoreFailuresAreContained ==
    /\ loadPc # "dead"
    /\ lastCall.op = "put" => lastCall.result = "false"
    /\ lastCall.op = "getAll" => lastCall.result = "empty"
    /\ lastCall.op \in {"delete", "clear"} => lastCall.result = "done"

\* C18: a candidate that is not a duplicate becomes a job exactly when its
\* type is image/png, image/jpeg or image/webp or its name ends,
\* case-insensitively, in .png, .jpg, .jpeg or .webp.
Supported(name, type) ==
    \/ type \in {<<"image", "png">>, <<"image", "jpeg">>, <<"image", "webp">>}
    \/ name[2] \in {"png", "PNG", "jpg", "JPG", "jpeg", "JPEG", "webp", "WEBP"}

OnlySupportedJobs ==
    /\ \A i \in 1 .. Len(files) : Supported(files[i].name, files[i].type)
    /\ \A r \in StoreRecs : Supported(r.name, r.type)

SupportedBecomesJob ==
    \A f \in FilterCandidates :
        IngestStart(1, <<f>>) =>
            ((dbq' # dbq) <=> (Supported(f.name, f.type) /\ ~IsDuplicate(f, files)))

C18_IngestAcceptsExactlySupported ==
    [] OnlySupportedJobs /\ [][SupportedBecomesJob]_vars

\* C19: the relay answers 500 with {error, message} when no key is
\* configured, else 400 with {error, message} when the request carries no
\* image bytes, in both cases without an upstream request; otherwise it
\* sends exactly one upstream request and, for a 2xx or 4xx answer, returns
\* the upstream status and JSON body as they are.
ErrorAndMessage(body) == DOMAIN body = {"error", "message"}

C19_RelayContract ==
    /\ upSent <= 1
    /\ (rq # NoRq /\ rs = NoRs) => (envKey # NoKey /\ rq.bytes > 0 /\ upSent = 1)
    /\ (rq # NoRq /\ rs # NoRs) =>
          IF envKey = NoKey
          THEN rs.status = 500 /\ ErrorAndMessage(rs.body) /\ upSent = 0
          ELSE IF rq.bytes = 0
          THEN rs.status = 400 /\ ErrorAndMessage(rs.body) /\ upSent = 0
          ELSE /\ upSent = 1
               /\ (rq.up.kind = "http" /\ rq.up.status \in 200 .. 499) =>
                     (rs.status = rq.up.status /\ rs.body = rq.up.data)

\* C20: within a run the request of the next selected job is issued only
\* once the terminal record of the job before it is in the store (its put
\* not having failed) and has been applied to the list, and only while no
\* other request is out.
Terminal(r) == r.status \in {"success", "error"}

NextRequestAfterRecord ==
    (RequestIssued /\ runIdx' > 1) =>
        LET prev == pendingFiles'[runIdx' - 1].id IN
            /\ failCount' = failCount =>
                  (prev \in DOMAIN store' /\ Terminal(store'[prev]))
            /\ \A i \in 1 .. Len(files') : files'[i].id = prev => Terminal(files'[i])

RequestsDoNotOverlap == RequestIssued => request = NoRequest

RequestOnlyWhileFetching == (request # NoRequest) <=> (runPc = "fetch")

C21_CompressingWrittenThrough ==
    request # NoRequest =>
        /\ JobInFlight \in DOMAIN store
        /\ store[JobInFlight].status = "compressing"
        /\ store[JobInFlight].error = Null

\* C22: provided every request is answered or fails, every run finishes,
\* also when store writes fail: isProcessing returns to false, no listed
\* job is left 'compressing', and every job of the selection that is still
\* listed is 'success' or 'error'.
RunFinishesClean ==
    (runPc = "save" /\ runPc' = "idle") =>
        /\ ~isProcessing'
        /\ Compressing(files') = {}
        /\ \A i \in 1 .. Len(pendingFiles), j \in 1 .. Len(files') :
              files'[j].id = pendingFiles[i].id => Terminal(files'[j])

IdleMeansNotProcessing == (runPc = "idle") <=> ~isProcessing

C22_RunTerminates ==
    /\ [] IdleMeansNotProcessing
    /\ [][RunFinishesClean]_vars
    /\ (isProcessing ~> ~isProcessing)

\* a run has finished and its job is 'error' in the list; the write of that
\* record failed, the store still has the job as 'pending'
C22_Witness ==
    /\ runPc = "idle"
    /\ ~isProcessing
    /\ lastCall.op = "put"
    /\ \E i \in 1 .. Len(files) :
          /\ files[i].status = "error"
          /\ files[i].id \in DOMAIN store
          /\ store[files[i].id].status = "pending"

\* C23: a failed store write never stops a job from advancing in memory.
\* When the put of an ingested file fails, its record is still pushed to the
\* batch's records and appended to the list as 'pending'; when the put of a
\* result fails, the listed record still becomes that 'success' or 'error'
\* result and the run enters the next selected job.
PutFails(owner) == HeadIs(owner) /\ failCount' = failCount + 1 /\ store' = store

IngestAdvancesUnsaved ==
    PutFails("ingest") =>
        LET rec == Head(dbq).rec
            k == Head(dbq).id
        IN /\ rec.status = "pending"
           /\ \/ \E j \in 1 .. Len(ingest'[k].newFiles) : ingest'[k].newFiles[j] = rec
              \/ /\ ingest'[k].pc = "idle"
                 /\ Len(files') = Len(files) + Len(ingest[k].newFiles) + 1
                 /\ files'[Len(files')] = rec

RunAdvancesUnsaved ==
    PutFails("run") =>
        /\ Terminal(runResult)
        /\ \A j \in 1 .. Len(files) :
              files[j].id = runResult.id => files'[j] = runResult
        /\ runIdx < Len(pendingFiles) =>
              /\ runIdx' = runIdx + 1
              /\ runPc' = "fetch"
              /\ request' # NoRequest
              /\ isProcessing'

C23_FailedWriteDoesNotStall == [][IngestAdvancesUnsaved /\ RunAdvancesUnsaved]_vars

\* the put of the first job's result failed and the run is in the second job
C23_Witness ==
    /\ lastCall.op = "put" /\ lastCall.outcome # "ok"
    /\ runPc = "fetch" /\ runIdx = 2 /\ request # NoRequest
    /\ \E j \in 1 .. Len(files) :
          /\ files[j].id = pendingFiles[1].id
          /\ Terminal(files[j])
          /\ files[j].id \in DOMAIN store
          /\ store[files[j].id].status = "pending"

\* the put of an ingested file failed and the file is listed all the same
C23_IngestCase ==
    /\ lastCall.op = "put" /\ lastCall.outcome # "ok"
    /\ \E j \in 1 .. Len(files) :
          files[j].status = "pending" /\ files[j].id \notin DOMAIN store

\* C24: after a reload at any point, once the initial load has completed the
\* list holds exactly the records the store held when it was read, with the
\* same fields.  The read takes every record of the store once, unchanged;
\* nothing touches what was read until it is delivered; the delivery makes
\* it the list.
ReadTakesTheStore ==
    (loadPc = "open" /\ loadPc' = "deliver") =>
        /\ {loadResult'[i] : i \in 1 .. Len(loadResult')} = StoreRecs
        /\ Len(loadResult') = Cardinality(DOMAIN store)

ReadIsKept == (loadPc = "deliver" /\ loadPc' = "deliver") => loadResult' = loadResult

DeliveryIsTheRead == (loadPc = "deliver" /\ loadPc' = "done") => files' = loadResult

C24_ReloadRestoresStore ==
    [][ReadTakesTheStore /\ ReadIsKept /\ DeliveryIsTheRead]_vars

\* a reload while a request was out: the load has completed and the list is
\* the stored records, the interrupted job among them
C24_Witness ==
    /\ reloads >= 1 /\ loadPc = "done" /\ runPc = "idle"
    /\ Len(files) = 2
    /\ {files[i] : i \in 1 .. Len(files)} = StoreRecs
    /\ \E i, j \in 1 .. Len(files) : Terminal(files[i]) /\ files[j].status = "pending"

\* C25: an Ingest call that starts when a record of the same name and size
\* is in the list (the earlier Ingest has returned: store written, list
\* updated) adds no record, writes nothing and leaves that record as it is.
\* Every file a call will create is fixed when the call starts and matches no
\* listed record; every put of the call is for one of those files, under an
\* id no stored record has; no step of an Ingest call changes a record that
\* is listed or stored.
SameFile(rec, file) == rec.name = file.name /\ rec.originalSize = file.size
Matches(file, recs) == \E i \in 1 .. Len(recs) : SameFile(recs[i], file)
NewPuts == {i \in 1 .. Len(dbq') : dbq'[i].owner = "ingest" /\ (i > Len(dbq) \/ dbq[i] # dbq'[i])}
IngestStep == ingest' # ingest

CallCreatesNoListedFile ==
    \A k \in Slots :
        (ingest[k].pc = "idle" /\ ingest'[k].pc = "save") =>
            /\ \A i \in 1 .. Len(ingest'[k].todo) : ~Matches(ingest'[k].todo[i], files)
            /\ \A i \in NewPuts :
                  ~Matches([name |-> dbq'[i].rec.name, size |-> dbq'[i].rec.originalSize], files)

LaterPutsAreTheCallsFiles ==
    \A k \in Slots :
        (ingest[k].pc = "save" /\ ingest'[k].pc = "save") =>
            \A i \in NewPuts :
                /\ ingest[k].todo # <<>>
                /\ SameFile(dbq'[i].rec, Head(ingest[k].todo))
                /\ ingest'[k].todo = Tail(ingest[k].todo)

IngestKeepsRecords ==
    IngestStep =>
        /\ Len(files') >= Len(files)
        /\ \A j \in 1 .. Len(files) : files'[j] = files[j]
        /\ \A id \in DOMAIN store : id \in DOMAIN store' /\ store'[id] = store[id]
        /\ \A i \in NewPuts : dbq'[i].rec.id \notin DOMAIN store

C25_ListedFileIsSkipped ==
    [][CallCreatesNoListedFile /\ LaterPutsAreTheCallsFiles /\ IngestKeepsRecords]_vars

\* a.png was ingested and compressed; the folder was then dropped again with
\* b.jpg added: a.png was skipped and is the record it was, b.jpg is new
C25_Witness ==
    /\ runPc = "idle" /\ dbq = <<>> /\ Len(files) = 2
    /\ files[1].id = 1 /\ SameFile(files[1], FileA) /\ Terminal(files[1])
    /\ files[2].id = 2 /\ SameFile(files[2], FileB) /\ files[2].status = "pending"
    /\ store = [i \in {1, 2} |-> files[i]]

\* C26: the store never holds a 'compressing' record, and neither does what
\* is read from it; when the page is reloaded while a request is out, the
\* store holds the job in flight as the run selected it ('pending' or
\* 'error'), so that the next session loads it selectable.
NoneCompressing(recs) == \A i \in 1 .. Len(recs) : recs[i].status # "compressing"

StoreHasNoCompressing ==
    /\ \A r \in StoreRecs : r.status # "compressing"
    /\ NoneCompressing(loadResult)

InterruptedJobIsKept ==
    (reloads' = reloads + 1 /\ request # NoRequest) =>
        /\ JobInFlight \in DOMAIN store'
        /\ store'[JobInFlight] = pendingFiles[runIdx]
        /\ Selectable(store'[JobInFlight])

LoadedAsStored ==
    (loadPc = "deliver" /\ loadPc' = "done") =>
        NoneCompressing(files')

C26_NoCompressingInStore ==
    /\ [] StoreHasNoCompressing
    /\ [][InterruptedJobIsKept /\ LoadedAsStored]_vars

\* the only job ever created was in a run when the page was reloaded; it has
\* been loaded as 'pending' and the start button is enabled
C26_Witness ==
    /\ reloads = 1 /\ loadPc = "done" /\ runPc = "idle" /\ nextId = 2
    /\ Len(files) = 1 /\ files[1].status = "pending" /\ Selectable(files[1])
    /\ store[1] = files[1]
    /\ ~isProcessing

\* C27: no compression request is issued and no store write is made for a job
\* that is no longer in the list; a selected job removed before its turn is
\* skipped by the run.
RequestOnlyForListed ==
    (request' # NoRequest /\ runIdx' # runIdx) =>
        pendingFiles'[runIdx'].id \in FileIds(files)

WriteOnlyForListed ==
    \A i \in 1 .. Len(dbq') :
        (dbq'[i].owner = "run" /\ (i > Len(dbq) \/ dbq[i] # dbq'[i])) =>
            dbq'[i].rec.id \in FileIds(files)

C27_RemovedJobIsSkipped == [][RequestOnlyForListed /\ WriteOnlyForListed]_vars

\* C28: a record whose Ingest has completed before the initial load finishes
\* (it is in the list when the load delivers) is still in the list after the
\* load has finished.
C28_LoadKeepsIngested ==
    [][(loadPc = "deliver" /\ loadPc' = "done") =>
          \A i \in 1 .. Len(files) : \E j \in 1 .. Len(files') : files'[j] = files[i]]_vars

\* C29: the archive has one entry per 'success' job whose result fetch did
\* not fail: the number of entries equals the number of such jobs, also when
\* two of them have the same name, in whatever order the fetches complete.
FetchedJobs == {k \in 1 .. Len(successFiles) : exOutcome[k] # "reject"}

C29_OneEntryPerFetchedJob ==
    [][(exPc = "fetching" /\ exPc' = "done") =>
          Cardinality(DOMAIN zip') = Cardinality(FetchedJobs)]_vars

\* C30: the archive has an entry only for a job whose result fetch returned a
\* 2xx response; a job whose fetch returned another status is left out, as
\* one whose fetch was rejected is.
C30_OnlyOkResponsesArchived ==
    [][(exPc = "fetching" /\ exPc' = "done") =>
          \A k \in 1 .. Len(successFiles) :
              HasEntry(zip', successFiles[k]) => exOutcome[k] = "ok"]_vars

====
